---- MODULE Spec2Model ----
(***************************************************************************)
(* Model of the election case study's network simulation                   *)
(* (scripts/network_simulation.py) and of the parameter sweep that drives  *)
(* it (scripts/sweep.py).                                                  *)
(*                                                                         *)
(* Conventions.                                                            *)
(*  - A probability is an integer number of percent: 0.10 is 10, 1.0 is    *)
(*    100.  A draw of random.random(), a float of [0.0, 1.0), is an        *)
(*    integer of 0..99; "random.random() < p" is "u < p".                  *)
(*  - Time is an integer number of microseconds.  time.time() is the run's *)
(*    field now, which asyncio.sleep(lat) advances by lat.                 *)
(*  - A quotient a / b of the code is the fraction [num |-> a, den |-> b]. *)
(*  - A vote string "vote-<i>" is the token sequence <<"vote", "<i>">>;    *)
(*    f"{data}-tampered" appends the token "tampered".                     *)
(***************************************************************************)
EXTENDS Integers, Sequences, FiniteSets, TLC

VARIABLES
    runs,         \* run id -> state of one call of simulate()
    rng,          \* state of the process-wide generator of module random
    dims,         \* how many values of each of the five grid dimensions are swept
    task,         \* cell index -> position of that cell's sem_run task
    sem_value,    \* asyncio.Semaphore: free slots
    sem_waiters,  \* asyncio.Semaphore: FIFO of the tasks blocked in acquire
    results,      \* cell index -> the row its task returned (None until then)
    main_pc,      \* position of sweep.main()
    written,      \* rows that "for row in results" has written
    file,         \* results/sim_runs.csv: whether it exists, the lines it holds
    invocations,  \* the runs of sweep.py: how many have started, have returned
    stats,        \* a call of ci95: its position, its argument, what it returned
    cells         \* cell id -> a call of one_cell: its position, its four lists

vars ==
    <<runs, rng, dims, task, sem_value, sem_waiters, results, main_pc, written,
      file, invocations, stats, cells>>

\* A value a call returns: Python's None, or a value.
None == [none |-> TRUE, val |-> <<>>]
Some(x) == [none |-> FALSE, val |-> x]

\* "if result:" of a string or None, "if ok:" of a bool or None
TruthyStr(x) == ~x.none /\ x.val # <<>>
TruthyBool(x) == ~x.none /\ x.val

(***************************************************************************)
(* Bounds of the model.                                                    *)
(***************************************************************************)
MaxVotes == 2        \* votes of a run: 0..MaxVotes
MaxBurstLen == 2     \* burst_len of a run: 1..MaxBurstLen

\* Representatives of random.random(): the least draw and the greatest one.
RandVals == {0, 99}

(***************************************************************************)
(* Small helpers.                                                          *)
(***************************************************************************)
Frac(a, b) == [num |-> a, den |-> b]

Max(a, b) == IF a >= b THEN a ELSE b

RECURSIVE SumSeq(_)
SumSeq(s) == IF s = <<>> THEN 0 ELSE Head(s) + SumSeq(Tail(s))

\* random.uniform(a, b) = a + (b - a) * random.random()
Uniform(a, b, u) == a + ((b - a) * u) \div 100

\* "tampered" in data
Contains(data, tok) == \E k \in 1..Len(data) : data[k] = tok

(***************************************************************************)
(* class Node                                                              *)
(***************************************************************************)
\* Node.__init__
Node(name, failure_rate, latency, jitter) ==
    [name |-> name, failure_rate |-> failure_rate, latency |-> latency,
     jitter |-> jitter, byzantine_prob |-> 0]

\* Head.__init__ that passes byzantine_prob on as the failure rate.
HeadNode_lossy(name, latency, byzantine_prob, jitter) ==
    [name |-> name, failure_rate |-> byzantine_prob, latency |-> latency,
     jitter |-> jitter, byzantine_prob |-> byzantine_prob]

\* Head.__init__: the failure rate is the default 0.0 of Node.__init__
HeadNode(name, latency, byzantine_prob, jitter) ==
    [name |-> name, failure_rate |-> 0, latency |-> latency,
     jitter |-> jitter, byzantine_prob |-> byzantine_prob]

\* The delay of one send or receive: lat = self.latency, plus the jitter
\* draw when self.jitter.  us is the tape of draws, k the draws consumed.
Delay(self, us, k) ==
    IF self.jitter
      THEN [lat |-> self.latency + Uniform(0, self.latency, us[k + 1]), k |-> k + 1]
      ELSE [lat |-> self.latency, k |-> k]

\* Lost with <= in place of <.
LostLe(u, failure_rate) == u <= failure_rate

\* random.random() < self.failure_rate
Lost(u, failure_rate) == u < failure_rate

\* Node.receive: sleeps, returns the data unmodified.
Node_receive(self, data, us, k) ==
    LET d == Delay(self, us, k)
    IN  [ret |-> Some(data), dt |-> d.lat, k |-> d.k]

\* Head.receive: may append "-tampered", then Node.receive.
Head_receive(self, data, us, k) ==
    LET tamper == self.byzantine_prob > 0 /\ us[k + 1] < self.byzantine_prob
        k1 == IF self.byzantine_prob > 0 THEN k + 1 ELSE k
        data1 == IF tamper THEN Append(data, "tampered") ELSE data
    IN  Node_receive(self, data1, us, k1)

\* Capital.receive that counts a tampered arrival and records it as well.
Capital_receive_keep(capital, data, now) ==
    IF Contains(data, "tampered")
      THEN [capital |-> [capital EXCEPT !.tampered = @ + 1,
                                        !.received = Append(@, <<data, now>>)],
            ret |-> Some(FALSE)]
      ELSE [capital |-> [capital EXCEPT !.received = Append(@, <<data, now>>)],
            ret |-> Some(TRUE)]

\* Capital.receive: no delay; counts a tampered arrival or records the vote.
Capital_receive(capital, data, now) ==
    IF Contains(data, "tampered")
      THEN [capital |-> [capital EXCEPT !.tampered = @ + 1], ret |-> Some(FALSE)]
      ELSE [capital |-> [capital EXCEPT !.received = Append(@, <<data, now>>)],
            ret |-> Some(TRUE)]

\* Node.send after its asyncio.sleep, with next_node the Head: the vote is
\* lost (None), or Head.receive runs down to its return; dt is the time
\* that Head.receive sleeps.
Node_send_resume(self, next_node, data, us, k) ==
    IF Lost(us[k + 1], self.failure_rate)
      THEN [ret |-> None, dt |-> 0, k |-> k + 1]
      ELSE Head_receive(next_node, data, us, k + 1)

\* Node.send after its asyncio.sleep, with next_node the Capital; now is
\* the time at which the sleep ended.
Head_send_resume(self, capital, data, now, us, k) ==
    IF Lost(us[k + 1], self.failure_rate)
      THEN [ret |-> None, capital |-> capital, k |-> k + 1]
      ELSE LET rcv == Capital_receive(capital, data, now)
           IN  [ret |-> rcv.ret, capital |-> rcv.capital, k |-> k + 1]

(***************************************************************************)
(* simulate()                                                              *)
(***************************************************************************)
DosProb == 10        \* random.random() < 0.1
BurstProb == 5       \* random.random() < 0.05
DosFailure == 50     \* max(failure_rate, 0.5)
DosSlowdown == 5     \* base_latency * 5
HeadFactor == 2      \* latency=base_latency * 2
UsPerMs == 1000      \* base_latency_ms / 1000.0 seconds, in microseconds
Percent == 100       \* ... * 100

\* The result of a run that has not returned.
NoResult ==
    [avg_latency |-> Frac(0, 1), throughput |-> Frac(0, 1),
     success_rate |-> Frac(0, 1), tamper_rate |-> Frac(0, 1)]

\* The state of a call simulate(**p) when it enters its loop over the votes.
simulate_init(p, now) ==
    LET base_latency == p.base_latency_ms * UsPerMs
    IN  [p |-> p,
         pc |-> "for_votes",
         base_latency |-> base_latency,
         node |-> Node("Node", p.failure_rate, base_latency, p.jitter),
         head |-> HeadNode("Head", base_latency * HeadFactor, p.byzantine_prob,
                           p.jitter),
         capital |-> [received |-> <<>>, tampered |-> 0],
         latencies |-> <<>>,
         tampered_detected |-> 0,
         start_time |-> now,
         burst_active |-> FALSE,
         burst_counter |-> 0,
         i |-> 0,
         vote |-> <<>>,
         data |-> <<>>,
         t0 |-> now,
         escalated |-> FALSE,
         r |-> 0,
         success |-> FALSE,
         tampered |-> FALSE,
         ok |-> None,
         now |-> now,
         result |-> NoResult]

\* DosStep without its else branch: the node keeps what the last escalation
\* set.
DosStep_sticky(st, us, k) ==
    LET hit == st.p.dos_attack /\ us[k + 1] < DosProb
        k1 == IF st.p.dos_attack THEN k + 1 ELSE k
    IN  [st |-> IF hit
                  THEN [st EXCEPT !.node.failure_rate = Max(st.p.failure_rate, DosFailure),
                                  !.node.latency = st.base_latency * DosSlowdown,
                                  !.escalated = TRUE]
                  ELSE [st EXCEPT !.escalated = FALSE],
         k |-> k1]

\* DosStep with node.failure_rate = 0.5 in place of max(failure_rate, 0.5).
DosStepNoMax(st, us, k) ==
    LET hit == st.p.dos_attack /\ us[k + 1] < DosProb
        k1 == IF st.p.dos_attack THEN k + 1 ELSE k
    IN  [st |-> IF hit
                  THEN [st EXCEPT !.node.failure_rate = DosFailure,
                                  !.node.latency = st.base_latency * DosSlowdown,
                                  !.escalated = TRUE]
                  ELSE [st EXCEPT !.node.failure_rate = st.p.failure_rate,
                                  !.node.latency = st.base_latency,
                                  !.escalated = FALSE],
         k |-> k1]

\* Simulate DoS attack by increasing failure rate and latency.
DosStep(st, us, k) ==
    LET hit == st.p.dos_attack /\ us[k + 1] < DosProb
        k1 == IF st.p.dos_attack THEN k + 1 ELSE k
    IN  [st |-> IF hit
                  THEN [st EXCEPT !.node.failure_rate = Max(st.p.failure_rate, DosFailure),
                                  !.node.latency = st.base_latency * DosSlowdown,
                                  !.escalated = TRUE]
                  ELSE [st EXCEPT !.node.failure_rate = st.p.failure_rate,
                                  !.node.latency = st.base_latency,
                                  !.escalated = FALSE],
         k |-> k1]

\* BurstStep with "burst_counter > burst_len": a burst lasts a vote longer.
BurstStep_late(st, us, k) ==
    IF ~st.p.burst_drop THEN [st |-> st, k |-> k]
    ELSE IF st.burst_active
      THEN LET counter == st.burst_counter + 1
           IN  [st |-> [st EXCEPT !.node.failure_rate = st.p.p_burst,
                                  !.burst_active = ~(counter > st.p.burst_len),
                                  !.burst_counter =
                                      IF counter > st.p.burst_len THEN 0 ELSE counter],
                k |-> k]
      ELSE [st |-> IF us[k + 1] < BurstProb
                     THEN [st EXCEPT !.burst_active = TRUE, !.burst_counter = 0]
                     ELSE st,
            k |-> k + 1]

\* BurstStep with "node.failure_rate += p_burst".
BurstStep_add(st, us, k) ==
    IF ~st.p.burst_drop THEN [st |-> st, k |-> k]
    ELSE IF st.burst_active
      THEN LET counter == st.burst_counter + 1
           IN  [st |-> [st EXCEPT !.node.failure_rate = @ + st.p.p_burst,
                                  !.burst_active = ~(counter >= st.p.burst_len),
                                  !.burst_counter =
                                      IF counter >= st.p.burst_len THEN 0 ELSE counter],
                k |-> k]
      ELSE [st |-> IF us[k + 1] < BurstProb
                     THEN [st EXCEPT !.burst_active = TRUE, !.burst_counter = 0]
                     ELSE st,
            k |-> k + 1]

\* Simulate burst packet drops.
BurstStep(st, us, k) ==
    IF ~st.p.burst_drop THEN [st |-> st, k |-> k]
    ELSE IF st.burst_active
      THEN LET counter == st.burst_counter + 1
           IN  [st |-> [st EXCEPT !.node.failure_rate = st.p.p_burst,
                                  !.burst_active = ~(counter >= st.p.burst_len),
                                  !.burst_counter =
                                      IF counter >= st.p.burst_len THEN 0 ELSE counter],
                k |-> k]
      ELSE [st |-> IF us[k + 1] < BurstProb
                     THEN [st EXCEPT !.burst_active = TRUE, !.burst_counter = 0]
                     ELSE st,
            k |-> k + 1]

\* BeginVote with the burst step before the DoS step.
BeginVote_burst_first(st, us, k) ==
    LET s0 == [st EXCEPT !.vote = <<"vote", ToString(st.i)>>, !.t0 = st.now]
        b == BurstStep(s0, us, k)
        d == DosStep(b.st, us, b.k)
    IN  [st |-> [d.st EXCEPT !.success = FALSE, !.tampered = FALSE, !.r = 0,
                             !.pc = "for_repl"],
         k |-> d.k]

\* The head of one iteration of "for i in range(votes)", down to the
\* replication loop.
BeginVote(st, us, k) ==
    LET s0 == [st EXCEPT !.vote = <<"vote", ToString(st.i)>>, !.t0 = st.now]
        d == DosStep(s0, us, k)
        b == BurstStep(d.st, us, d.k)
    IN  [st |-> [b.st EXCEPT !.success = FALSE, !.tampered = FALSE, !.r = 0,
                             !.pc = "for_repl"],
         k |-> b.k]

\* An iteration of "for r in range(replication_factor)" has three awaits,
\* the calls of asyncio.sleep in node.send, in head.receive and in head.send,
\* which cut it into four parts.
\*
\* node.send(vote, head) down to its sleep.
AttemptSend(st, us, k) ==
    LET d == Delay(st.node, us, k)
    IN  [st |-> [st EXCEPT !.now = @ + d.lat, !.pc = "sleep_node_send"],
         k |-> d.k]

\* From the sleep of node.send to the sleep of head.receive, or to the end
\* of the iteration when the vote is lost: result is None and "if result:"
\* skips the rest.
AttemptForward(st, us, k) ==
    LET snd == Node_send_resume(st.node, st.head, st.vote, us, k)
    IN  IF ~TruthyStr(snd.ret)
          THEN [st |-> [st EXCEPT !.r = @ + 1, !.pc = "for_repl"], k |-> snd.k]
          ELSE [st |-> [st EXCEPT !.data = snd.ret.val, !.now = @ + snd.dt,
                                  !.pc = "sleep_head_receive"],
                k |-> snd.k]

\* From the sleep of head.receive to the sleep of head.send(result, capital).
AttemptRelay(st, us, k) ==
    LET d == Delay(st.head, us, k)
    IN  [st |-> [st EXCEPT !.now = @ + d.lat, !.pc = "sleep_head_send"],
         k |-> d.k]

\* AttemptCollect that leaves the replication loop once an attempt was
\* accepted.
AttemptCollect_stop(st, us, k) ==
    LET fwd == Head_send_resume(st.head, st.capital, st.data, st.now, us, k)
    IN  [st |-> [st EXCEPT
                   !.r = IF TruthyBool(fwd.ret) THEN st.p.replication_factor
                                                ELSE @ + 1,
                   !.data = <<>>,
                   !.ok = fwd.ret,
                   !.capital = fwd.capital,
                   !.success = IF TruthyBool(fwd.ret) THEN TRUE ELSE @,
                   !.tampered = IF TruthyBool(fwd.ret) THEN @ ELSE TRUE,
                   !.pc = "for_repl"],
         k |-> fwd.k]

\* From the sleep of head.send to the end of the iteration.
AttemptCollect(st, us, k) ==
    LET fwd == Head_send_resume(st.head, st.capital, st.data, st.now, us, k)
    IN  [st |-> [st EXCEPT
                   !.r = @ + 1,
                   !.data = <<>>,
                   !.ok = fwd.ret,
                   !.capital = fwd.capital,
                   !.success = IF TruthyBool(fwd.ret) THEN TRUE ELSE @,
                   !.tampered = IF TruthyBool(fwd.ret) THEN @ ELSE TRUE,
                   !.pc = "for_repl"],
         k |-> fwd.k]

\* EndVote with "elif tampered": a vote that was accepted is not counted.
EndVote_elif(st) ==
    [st EXCEPT !.latencies = IF st.success THEN Append(@, st.now - st.t0) ELSE @,
               !.tampered_detected = IF ~st.success /\ st.tampered THEN @ + 1 ELSE @,
               !.i = @ + 1,
               !.pc = "for_votes"]

\* The tail of one iteration of "for i in range(votes)".
EndVote(st) ==
    [st EXCEPT !.latencies = IF st.success THEN Append(@, st.now - st.t0) ELSE @,
               !.tampered_detected = IF st.tampered THEN @ + 1 ELSE @,
               !.i = @ + 1,
               !.pc = "for_votes"]

\* Rate with the attempts made, votes * replication_factor, as denominator.
RatePerAttempt(count, st) ==
    Frac(count * Percent, st.p.votes * st.p.replication_factor)

\* success_rate = len(capital.received) / votes * 100
Rate(count, st) == Frac(count * Percent, st.p.votes)

\* The statistics after the loop.  A division by zero raises ZeroDivisionError.
Finish(st) ==
    LET elapsed == st.now - st.start_time
        accepted == Len(st.capital.received)
    IN  IF elapsed = 0 \/ st.p.votes = 0
          THEN [st EXCEPT !.pc = "ZeroDivisionError"]
          ELSE [st EXCEPT
                  !.pc = "done",
                  !.result =
                      [avg_latency |-> IF st.latencies # <<>>
                                         THEN Frac(SumSeq(st.latencies), Len(st.latencies))
                                         ELSE Frac(0, 1),
                       throughput |-> Frac(accepted, elapsed),
                       success_rate |-> Rate(accepted, st),
                       tamper_rate |-> Rate(st.tampered_detected, st)]]

Ended(st) == st.pc \in {"done", "ZeroDivisionError"}

Asleep(st) ==
    st.pc \in {"sleep_node_send", "sleep_head_receive", "sleep_head_send"}

\* The next part of a run, the draws it makes being read off the tape us
\* from position k + 1 on: the state it leads to, and the draws consumed.
SimPart(st, us, k) ==
    CASE st.pc = "for_votes" /\ st.i < st.p.votes -> BeginVote(st, us, k)
      [] st.pc = "for_votes" /\ st.i >= st.p.votes -> [st |-> Finish(st), k |-> k]
      [] st.pc = "for_repl" /\ st.r < st.p.replication_factor ->
             AttemptSend(st, us, k)
      [] st.pc = "for_repl" /\ st.r >= st.p.replication_factor ->
             [st |-> EndVote(st), k |-> k]
      [] st.pc = "sleep_node_send" -> AttemptForward(st, us, k)
      [] st.pc = "sleep_head_receive" -> AttemptRelay(st, us, k)
      [] st.pc = "sleep_head_send" -> AttemptCollect(st, us, k)
      [] OTHER -> [st |-> st, k |-> k]

RECURSIVE RunToAwait(_, _, _)
RunToAwait(st, us, k) ==
    IF Asleep(st) \/ Ended(st) THEN [st |-> st, k |-> k]
    ELSE LET n == SimPart(st, us, k)
         IN  RunToAwait(n.st, us, n.k)

\* What a run does when the event loop resumes it: its parts up to the next
\* await, or to its end.
SimStep(st, us) ==
    LET n == SimPart(st, us, 0)
    IN  RunToAwait(n.st, us, n.k)

(***************************************************************************)
(* The inputs of a run.                                                    *)
(***************************************************************************)
VoteCounts == 0..MaxVotes
FailureRates == {0, 10, 100, 150}      \* 150: a probability out of range
BurstRates == {0, 100}
TamperProbs == {0, 50}
BaseLatencies == {5}
DefaultBurstLen == 50                  \* burst_len=50
DefaultPBurst == 50                    \* p_burst=0.5

ReplFactors == {1, 2}
JitterVotes == {1}                     \* the vote counts of the runs with jitter

\* The keyword arguments of simulate.  With burst_drop off, burst_len and
\* p_burst are never read and keep their defaults.  Jitter multiplies the
\* times a run can record, so the runs with jitter are the short ones.
Config(v, d, f, b, n, j, bd, bl, pb, bz) ==
    [votes |-> v, dos_attack |-> d, failure_rate |-> f, base_latency_ms |-> b,
     replication_factor |-> n, jitter |-> j, burst_drop |-> bd,
     burst_len |-> bl, p_burst |-> pb, byzantine_prob |-> bz]

BurstConfigs ==
    { <<TRUE, bl, pb>> : bl \in 1..MaxBurstLen, pb \in BurstRates }
    \cup { <<FALSE, DefaultBurstLen, DefaultPBurst>> }

Configs ==
    { Config(v, d, f, b, n, j, bc[1], bc[2], bc[3], bz) :
        v \in VoteCounts, d \in BOOLEAN, f \in FailureRates, b \in BaseLatencies,
        n \in ReplFactors, j \in BOOLEAN, bc \in BurstConfigs, bz \in TamperProbs }

ValidConfig(p) == p.jitter => p.votes \in JitterVotes

\* The tapes of draws a step may read: at most 2 draws at the head of a
\* vote; between two awaits of an attempt at most the loss draw, the tamper
\* draw and a jitter draw.
Tapes(n) == [1..n -> RandVals]
BeginVoteDraws == 2
PartDraws == 3

(***************************************************************************)
(* The generator of module random, one per process, which every            *)
(* random.random() and random.uniform() of every run advances.  A linear   *)
(* congruential generator of period RngModulus stands for it: what the     *)
(* model keeps of it is that the n-th draw of the process is a function of *)
(* the seed and of n.                                                      *)
(***************************************************************************)
RngModulus == 32
RngMultiplier == 5
RngIncrement == 3

MaxSeed == 2         \* the seeds are 0..MaxSeed

RngNext(x) == (RngMultiplier * x + RngIncrement) % RngModulus

\* The draw that a state of the generator yields, in percent.
RngDraw(x) == (x * 100) \div RngModulus

RECURSIVE RngAdvance(_, _)
RngAdvance(x, n) == IF n = 0 THEN x ELSE RngAdvance(RngNext(x), n - 1)

\* The next n draws of the generator in state x.
RngTape(x, n) == [k \in 1..n |-> RngDraw(RngAdvance(x, k))]

\* The generator of a specification in which the draws are any values.
NoRng == [seed |-> 0, state |-> 0]

(***************************************************************************)
(* Spec: one run of simulate, a step being what the run does between two   *)
(* awaits of asyncio.sleep, every draw being any value of RandVals.        *)
(***************************************************************************)
NoInvocations == [started |-> 0, returned |-> 0]

\* No call of ci95 is under way.
NoStats ==
    [pc |-> "idle", xs |-> <<>>,
     out |-> [m |-> [num |-> 0, den |-> 1], half |-> [sqrt_of |-> [num |-> 0, den |-> 1]]]]

SweepIdle ==
    /\ dims = <<>>
    /\ task = <<>>
    /\ sem_value = 0
    /\ sem_waiters = <<>>
    /\ results = <<>>
    /\ main_pc = "idle"
    /\ written = 0
    /\ file = [exists |-> FALSE, lines |-> <<>>]
    /\ invocations = NoInvocations
    /\ stats = NoStats
    /\ cells = <<>>

sweepVars ==
    <<dims, task, sem_value, sem_waiters, results, main_pc, written, file,
      invocations, stats, cells>>

Init ==
    /\ \E p \in Configs : ValidConfig(p) /\ runs = <<simulate_init(p, 0)>>
    /\ rng = NoRng
    /\ SweepIdle

StepBeginVote(id) ==
    /\ runs[id].pc = "for_votes"
    /\ runs[id].i < runs[id].p.votes
    /\ \E us \in Tapes(BeginVoteDraws) :
           runs' = [runs EXCEPT ![id] = BeginVote(@, us, 0).st]
    /\ UNCHANGED <<rng, sweepVars>>

\* node.send(vote, head) down to "await asyncio.sleep(lat)".
StepSend(id) ==
    /\ runs[id].pc = "for_repl"
    /\ runs[id].r < runs[id].p.replication_factor
    /\ \E us \in Tapes(PartDraws) :
           runs' = [runs EXCEPT ![id] = AttemptSend(@, us, 0).st]
    /\ UNCHANGED <<rng, sweepVars>>

\* The sleep of node.send is over: the vote is lost, or head.receive takes
\* it down to its "await asyncio.sleep(lat)".
StepForward(id) ==
    /\ runs[id].pc = "sleep_node_send"
    /\ \E us \in Tapes(PartDraws) :
           runs' = [runs EXCEPT ![id] = AttemptForward(@, us, 0).st]
    /\ UNCHANGED <<rng, sweepVars>>

\* The sleep of head.receive is over: head.send(result, capital) down to
\* its "await asyncio.sleep(lat)".
StepRelay(id) ==
    /\ runs[id].pc = "sleep_head_receive"
    /\ \E us \in Tapes(PartDraws) :
           runs' = [runs EXCEPT ![id] = AttemptRelay(@, us, 0).st]
    /\ UNCHANGED <<rng, sweepVars>>

\* The sleep of head.send is over: capital.receive, and the end of the
\* iteration.
StepCollect(id) ==
    /\ runs[id].pc = "sleep_head_send"
    /\ \E us \in Tapes(PartDraws) :
           runs' = [runs EXCEPT ![id] = AttemptCollect(@, us, 0).st]
    /\ UNCHANGED <<rng, sweepVars>>

StepEndVote(id) ==
    /\ runs[id].pc = "for_repl"
    /\ runs[id].r >= runs[id].p.replication_factor
    /\ runs' = [runs EXCEPT ![id] = EndVote(@)]
    /\ UNCHANGED <<rng, sweepVars>>

StepFinish(id) ==
    /\ runs[id].pc = "for_votes"
    /\ runs[id].i >= runs[id].p.votes
    /\ runs' = [runs EXCEPT ![id] = Finish(@)]
    /\ UNCHANGED <<rng, sweepVars>>

Next ==
    \/ StepBeginVote(1)
    \/ StepSend(1)
    \/ StepForward(1)
    \/ StepRelay(1)
    \/ StepCollect(1)
    \/ StepEndVote(1)
    \/ StepFinish(1)

Spec == Init /\ [][Next]_vars

(***************************************************************************)
(* Properties of one run (Spec).                                           *)
(***************************************************************************)
FracIs(f, n) == f.num = n * f.den

Returned(st) == st.pc = "done"

Accepted(st) == Len(st.capital.received)

NoFault(p) ==
    /\ p.votes > 0
    /\ p.failure_rate = 0
    /\ p.byzantine_prob = 0
    /\ ~p.jitter
    /\ ~p.burst_drop
    /\ ~p.dos_attack
    /\ p.replication_factor = 1

\* C1 (no-fault baseline): a run with failure_rate 0, byzantine_prob 0, no
\* jitter, no burst drops, no DoS attack and replication_factor 1 accepts
\* every vote it has processed and rejects none, never fails, and returns
\* success_rate = 100 and tamper_rate = 0.
C1_NoFaultBaseline ==
    LET st == runs[1]
    IN  NoFault(st.p) =>
          /\ st.pc # "ZeroDivisionError"
          /\ st.capital.tampered = 0
          /\ st.tampered_detected = 0
          /\ st.pc = "for_votes" => Accepted(st) = st.i
          /\ Returned(st) =>
                /\ Accepted(st) = st.p.votes
                /\ FracIs(st.result.success_rate, 100)
                /\ FracIs(st.result.tamper_rate, 0)

C1_Witness ==
    /\ NoFault(runs[1].p)
    /\ runs[1].p.votes = MaxVotes
    /\ Returned(runs[1])
    /\ FracIs(runs[1].result.success_rate, 100)

TotalLoss(p) ==
    /\ p.votes > 0
    /\ p.failure_rate = 100
    /\ p.replication_factor = 1

NothingAccepted(st) ==
    /\ Accepted(st) = 0
    /\ ~st.success
    /\ Returned(st) => FracIs(st.result.success_rate, 0)

\* C2 as stated (total-loss baseline): a run with failure_rate 1 and
\* replication_factor 1 accepts no vote and returns success_rate = 0,
\* whatever the other parameters are.
C2_TotalLossAnySetting ==
    TotalLoss(runs[1].p) => NothingAccepted(runs[1])

\* C2 as amended: a run with failure_rate 1 and replication_factor 1 accepts
\* no vote and returns success_rate = 0 for every setting of DoS, jitter and
\* byzantine_prob, when burst drops are off or p_burst is 1.
C2_TotalLossNoWeakBurst ==
    LET p == runs[1].p
    IN  (TotalLoss(p) /\ (~p.burst_drop \/ p.p_burst = 100)) =>
            NothingAccepted(runs[1])

\* A total-loss run that was escalated by the DoS step, went through a
\* burst, and returned.
C2_Witness ==
    LET st == runs[1]
    IN  /\ TotalLoss(st.p)
        /\ st.p.dos_attack /\ st.p.burst_drop /\ st.p.p_burst = 100
        /\ st.p.votes = MaxVotes
        /\ st.escalated
        /\ st.burst_active
        /\ st.i = MaxVotes - 1 /\ st.r = 1

InRange(x) == 0 <= x /\ x <= 100

BadConfig(p) ==
    \/ p.votes = 0
    \/ ~InRange(p.failure_rate)
    \/ ~InRange(p.p_burst)
    \/ ~InRange(p.byzantine_prob)

\* C9 (configuration errors are rejected at the boundary): a run with
\* votes = 0 or with a probability outside [0, 1] processes no vote, raises
\* no ZeroDivisionError and returns no rates.
C9_BadConfigRejected ==
    BadConfig(runs[1].p) =>
        runs[1].pc \notin {"for_repl", "done", "ZeroDivisionError"}

(***************************************************************************)
(* SpecPair: two runs of simulate that differ in replication_factor only,  *)
(* run side by side on the same draws: the head of every vote reads the    *)
(* same tape in both runs, and so does every part, from one await to the   *)
(* next, of every attempt that both runs make; the attempts that only the  *)
(* second run makes read tapes of their own.                               *)
(***************************************************************************)
InitPair ==
    /\ \E p \in Configs, n \in ReplFactors :
          /\ ValidConfig(p)
          /\ p.replication_factor < n
          /\ runs = <<simulate_init(p, 0),
                      simulate_init([p EXCEPT !.replication_factor = n], 0)>>
    /\ rng = NoRng
    /\ SweepIdle

PairBeginVote ==
    /\ \A id \in {1, 2} : runs[id].pc = "for_votes" /\ runs[id].i < runs[id].p.votes
    /\ \E us \in Tapes(BeginVoteDraws) :
           runs' = [id \in {1, 2} |-> BeginVote(runs[id], us, 0).st]
    /\ UNCHANGED <<rng, sweepVars>>

\* Both runs are at the same await of an attempt that both make, or about
\* to make it.
BothAt(pc) ==
    \A id \in {1, 2} :
        /\ runs[id].pc = pc
        /\ pc = "for_repl" => runs[id].r < runs[id].p.replication_factor

\* The parts, from one await to the next, of an attempt that both runs
\* make, on the same draws.
PairSend ==
    /\ BothAt("for_repl")
    /\ \E us \in Tapes(PartDraws) :
           runs' = [id \in {1, 2} |-> AttemptSend(runs[id], us, 0).st]
    /\ UNCHANGED <<rng, sweepVars>>

PairForward ==
    /\ BothAt("sleep_node_send")
    /\ \E us \in Tapes(PartDraws) :
           runs' = [id \in {1, 2} |-> AttemptForward(runs[id], us, 0).st]
    /\ UNCHANGED <<rng, sweepVars>>

PairRelay ==
    /\ BothAt("sleep_head_receive")
    /\ \E us \in Tapes(PartDraws) :
           runs' = [id \in {1, 2} |-> AttemptRelay(runs[id], us, 0).st]
    /\ UNCHANGED <<rng, sweepVars>>

PairCollect ==
    /\ BothAt("sleep_head_send")
    /\ \E us \in Tapes(PartDraws) :
           runs' = [id \in {1, 2} |-> AttemptCollect(runs[id], us, 0).st]
    /\ UNCHANGED <<rng, sweepVars>>

\* The first run has made all its attempts of the vote and the second run
\* is at an await of an attempt that only it makes, or about to make it.
SecondAt(pc) ==
    /\ runs[1].pc = "for_repl" /\ runs[1].r >= runs[1].p.replication_factor
    /\ runs[2].pc = pc
    /\ pc = "for_repl" => runs[2].r < runs[2].p.replication_factor

PairExtraSend ==
    /\ SecondAt("for_repl")
    /\ \E us \in Tapes(PartDraws) :
           runs' = [runs EXCEPT ![2] = AttemptSend(@, us, 0).st]
    /\ UNCHANGED <<rng, sweepVars>>

PairExtraForward ==
    /\ SecondAt("sleep_node_send")
    /\ \E us \in Tapes(PartDraws) :
           runs' = [runs EXCEPT ![2] = AttemptForward(@, us, 0).st]
    /\ UNCHANGED <<rng, sweepVars>>

PairExtraRelay ==
    /\ SecondAt("sleep_head_receive")
    /\ \E us \in Tapes(PartDraws) :
           runs' = [runs EXCEPT ![2] = AttemptRelay(@, us, 0).st]
    /\ UNCHANGED <<rng, sweepVars>>

PairExtraCollect ==
    /\ SecondAt("sleep_head_send")
    /\ \E us \in Tapes(PartDraws) :
           runs' = [runs EXCEPT ![2] = AttemptCollect(@, us, 0).st]
    /\ UNCHANGED <<rng, sweepVars>>

PairEndVote ==
    /\ \A id \in {1, 2} :
           runs[id].pc = "for_repl" /\ runs[id].r >= runs[id].p.replication_factor
    /\ runs' = [id \in {1, 2} |-> EndVote(runs[id])]
    /\ UNCHANGED <<rng, sweepVars>>

PairFinish ==
    /\ \A id \in {1, 2} : runs[id].pc = "for_votes" /\ runs[id].i >= runs[id].p.votes
    /\ runs' = [id \in {1, 2} |-> Finish(runs[id])]
    /\ UNCHANGED <<rng, sweepVars>>

NextPair ==
    \/ PairBeginVote
    \/ PairSend
    \/ PairForward
    \/ PairRelay
    \/ PairCollect
    \/ PairExtraSend
    \/ PairExtraForward
    \/ PairExtraRelay
    \/ PairExtraCollect
    \/ PairEndVote
    \/ PairFinish

SpecPair == InitPair /\ [][NextPair]_vars

FracLe(f, g) == f.num * g.den <= g.num * f.den

\* C3 (redundancy monotonicity): of two runs with the same parameters but
\* replication_factor, failure_rate < 1, and the same outcomes of the draws
\* they share, the run with the greater replication_factor has accepted at
\* least as many arrivals at every moment and returns a success_rate at
\* least as high.
C3_RedundancyMonotone ==
    (runs[1].p.failure_rate < 100) =>
        /\ Accepted(runs[1]) <= Accepted(runs[2])
        /\ (Returned(runs[1]) /\ Returned(runs[2])) =>
              FracLe(runs[1].result.success_rate, runs[2].result.success_rate)

\* Both runs returned, the first having lost a vote that an additional
\* attempt of the second one delivered.
C3_Witness ==
    /\ runs[1].p.failure_rate < 100
    /\ runs[1].p.replication_factor < runs[2].p.replication_factor
    /\ Returned(runs[1]) /\ Returned(runs[2])
    /\ Accepted(runs[1]) < Accepted(runs[2])
    /\ ~FracLe(runs[2].result.success_rate, runs[1].result.success_rate)

(***************************************************************************)
(* sweep.py: the parameter grid, one_cell and run_and_write.               *)
(***************************************************************************)
MaxFailures == 1     \* the cells whose runs may raise: cells 1..MaxFailures

Reps == 10           \* reps=10
SemaphoreSlots == 8  \* asyncio.Semaphore(8)

\* The value lists of itertools.product, in the order of its arguments.
GridValues ==
    << <<1000, 5000, 10000>>,     \* voters
       <<0, 10>>,                 \* failure_rate
       <<5, 25>>,                 \* base_lat_ms
       <<FALSE, TRUE>>,           \* dos
       <<1, 3>> >>                \* repl_factor

FullDims == [d \in 1..5 |-> Len(GridValues[d])]

\* A grid takes the first ds[d] values of dimension d.  The full grid of 48
\* cells has too many completion orders to enumerate; the grids swept are
\* sub-grids of it: one of 12 cells, more than there are slots, one of 8
\* cells and one of 2, every dimension taking two values in one of them.
SweptDims == { <<3, 1, 1, 2, 2>>, <<1, 2, 2, 2, 1>>, <<2, 1, 1, 1, 1>> }

GridSize(ds) == ds[1] * ds[2] * ds[3] * ds[4] * ds[5]

\* The number of consecutive cells that agree on dimensions 1..d.
Stride(ds, d) ==
    CASE d = 1 -> ds[2] * ds[3] * ds[4] * ds[5]
      [] d = 2 -> ds[3] * ds[4] * ds[5]
      [] d = 3 -> ds[4] * ds[5]
      [] d = 4 -> ds[5]
      [] d = 5 -> 1

\* list(itertools.product(...)): the cells in enumeration order, the last
\* dimension varying fastest.
param_grid(ds) ==
    [c \in 1..GridSize(ds) |->
        [d \in 1..5 |-> GridValues[d][(((c - 1) \div Stride(ds, d)) % ds[d]) + 1]]]

\* one_cell with range(reps - 1).
one_cell_short(params, reps) ==
    [lats |-> [k \in 1..(reps - 1) |-> "avg_lat"],
     thrs |-> [k \in 1..(reps - 1) |-> "thr"],
     succs |-> [k \in 1..(reps - 1) |-> "succ"],
     tampers |-> [k \in 1..(reps - 1) |-> "tamper_rate"]]

\* one_cell: reps runs of simulate one after the other, every run appending
\* one value to each of the four lists.  The values are left abstract.
one_cell(params, reps) ==
    [lats |-> [k \in 1..reps |-> "avg_lat"],
     thrs |-> [k \in 1..reps |-> "thr"],
     succs |-> [k \in 1..reps |-> "succ"],
     tampers |-> [k \in 1..reps |-> "tamper_rate"]]

\* int(dos)
IntOfBool(b) == IF b THEN 1 ELSE 0

\* run_and_write: the row of a cell.  The eight statistics columns, which
\* ci95 computes from the lists, are not part of the row modelled here.
run_and_write(params) ==
    LET cell == one_cell(params, Reps)
    IN  [voters |-> params[1],
         failure_rate |-> params[2],
         base_latency_ms |-> params[3],
         dos |-> IntOfBool(params[4]),
         replication_factor |-> params[5],
         replicates |-> Len(cell.lats)]

NoRow ==
    [voters |-> 0, failure_rate |-> 0, base_latency_ms |-> 0, dos |-> 0,
     replication_factor |-> 0, replicates |-> 0]

HeaderLine == [kind |-> "header", row |-> NoRow]
RowLine(row) == [kind |-> "row", row |-> row]

(***************************************************************************)
(* asyncio.Semaphore and asyncio.gather, as sweep.main uses them.          *)
(***************************************************************************)
\* Semaphore.locked with the test of the free slots left out.
sem_locked_no_count(value, waiters) == waiters # <<>>

\* Semaphore.locked(): no free slot, or a task waits for one.
sem_locked(value, waiters) == value = 0 \/ waiters # <<>>

\* "async with" whose __aexit__ does not release the slot.
sem_aexit_hold(value, raised) == value

\* "async with" that keeps the slot when its body raised.
sem_aexit_keep_on_error(value, raised) == IF raised THEN value ELSE value + 1

\* "async with semaphore": __aexit__ releases the slot, whether the body
\* returned or raised.
sem_aexit(value, raised) == value + 1

\* gather that stores a result at the first free position.
gather_store_first_free(res, c, row) ==
    LET k == CHOOSE j \in 1..Len(res) :
                 /\ res[j] = NoRow
                 /\ \A h \in 1..(j - 1) : res[h] # NoRow
    IN  [res EXCEPT ![k] = row]

\* asyncio.gather: the result of the c-th awaitable is the c-th result.
gather_store(res, c, row) == [res EXCEPT ![c] = row]

\* OUT.open("w") in place of OUT.open("a"): the file is emptied.
open_truncate(f) ==
    [exists |-> TRUE, lines |-> IF ~f.exists THEN <<HeaderLine>> ELSE <<>>]

\* write_header = not OUT.exists(); OUT.open("a") creates the file or keeps
\* what it holds; the header is written if write_header.
open_append(f) ==
    [exists |-> TRUE,
     lines |-> IF ~f.exists THEN Append(f.lines, HeaderLine) ELSE f.lines]

Cells == 1..Len(task)

Holding == {c \in Cells : task[c] = "running"}

(***************************************************************************)
(* SpecSweep: sweep.main().                                                *)
(***************************************************************************)
simVars == <<runs, rng, stats, cells>>

InitSweep ==
    /\ runs = <<>>
    /\ rng = NoRng
    /\ dims \in SweptDims
    /\ task = <<>>
    /\ sem_value = 0
    /\ sem_waiters = <<>>
    /\ results = <<>>
    /\ main_pc = "start"
    /\ written = 0
    /\ file = [exists |-> FALSE, lines |-> <<>>]
    /\ invocations = NoInvocations
    /\ stats = NoStats
    /\ cells = <<>>

\* main() down to "await asyncio.gather(...)": the file is opened for
\* appending, the header is written if the file did not exist, the grid is
\* built, the semaphore is made and one task per cell is created.
MainStart ==
    /\ main_pc = "start"
    /\ main_pc' = "gather"
    /\ file' = open_append(file)
    /\ invocations' = [invocations EXCEPT !.started = @ + 1]
    /\ task' = [c \in 1..GridSize(dims) |-> "created"]
    /\ results' = [c \in 1..GridSize(dims) |-> NoRow]
    /\ sem_value' = SemaphoreSlots
    /\ sem_waiters' = <<>>
    /\ UNCHANGED <<simVars, dims, written>>

\* The first step of a task, the tasks starting in the order of their
\* creation: sem_run enters "async with semaphore" and either takes a slot
\* and starts the cell's runs or queues for a slot.
TaskStart(c) ==
    /\ main_pc = "gather"
    /\ task[c] = "created"
    /\ \A b \in 1..(c - 1) : task[b] # "created"
    /\ IF ~sem_locked(sem_value, sem_waiters)
         THEN /\ sem_value' = sem_value - 1
              /\ task' = [task EXCEPT ![c] = "running"]
              /\ UNCHANGED sem_waiters
         ELSE /\ sem_waiters' = Append(sem_waiters, c)
              /\ task' = [task EXCEPT ![c] = "waiting"]
              /\ UNCHANGED sem_value
    /\ UNCHANGED <<simVars, invocations, dims, results, main_pc, written, file>>

\* Every task has taken its first step before a task takes a later one: the
\* event loop runs the tasks that gather created, in order, before it runs
\* a timer of asyncio.sleep.
AllStarted == \A c \in Cells : task[c] # "created"

Failed == {c \in Cells : task[c] = "failed"}

\* The tasks take their steps: gather is under way, or main has ended by
\* the exception and asyncio.run has not cancelled the tasks yet, the loop
\* running the callbacks that were ready when main ended.
TasksRun ==
    \/ main_pc = "gather"
    \/ main_pc = "raised" /\ \A c \in Cells : task[c] # "cancelled"

\* The first step of a task whose cell raises before its first await (a
\* run of simulate that reaches no asyncio.sleep): sem_run takes a slot,
\* the exception leaves "async with", which releases the slot, and the task
\* has ended before the next task starts.  The cells that raise are among
\* the first ones, which find a slot free.
TaskStartRaises(c) ==
    /\ main_pc = "gather"
    /\ task[c] = "created"
    /\ \A b \in 1..(c - 1) : task[b] # "created"
    /\ c \in 1..MaxFailures
    /\ ~sem_locked(sem_value, sem_waiters)
    /\ sem_value' = sem_aexit(sem_value - 1, TRUE)
    /\ task' = [task EXCEPT ![c] = "failed"]
    /\ UNCHANGED <<simVars, invocations, dims, sem_waiters, results, main_pc,
                   written, file>>

\* A released slot goes to the task that has waited longest.
TaskWake(c) ==
    /\ TasksRun
    /\ AllStarted
    /\ task[c] = "waiting"
    /\ sem_waiters # <<>>
    /\ Head(sem_waiters) = c
    /\ sem_value > 0
    /\ sem_value' = sem_value - 1
    /\ sem_waiters' = Tail(sem_waiters)
    /\ task' = [task EXCEPT ![c] = "running"]
    /\ UNCHANGED <<simVars, invocations, dims, results, main_pc, written, file>>

\* The last step of a task whose cell ran to its end: run_and_write returns
\* the row, the slot is released, gather stores the row.
CellReturns(c) ==
    /\ TasksRun
    /\ AllStarted
    /\ task[c] = "running"
    /\ task' = [task EXCEPT ![c] = "done"]
    /\ results' = gather_store(results, c, run_and_write(param_grid(dims)[c]))
    /\ sem_value' = sem_aexit(sem_value, FALSE)
    /\ UNCHANGED <<simVars, invocations, dims, sem_waiters, main_pc, written, file>>

\* The last step of a task whose cell raised: the exception leaves
\* "async with", which releases the slot, and ends the task.
CellRaises(c) ==
    /\ TasksRun
    /\ AllStarted
    /\ task[c] = "running"
    /\ c \in 1..MaxFailures
    /\ task' = [task EXCEPT ![c] = "failed"]
    /\ sem_value' = sem_aexit(sem_value, TRUE)
    /\ UNCHANGED <<simVars, invocations, dims, sem_waiters, results, main_pc, written, file>>

\* gather returns the list of results once every task is done.
GatherReturns ==
    /\ main_pc = "gather"
    /\ \A c \in Cells : task[c] = "done"
    /\ main_pc' = "write"
    /\ UNCHANGED <<simVars, invocations, dims, task, sem_value, sem_waiters, results, written,
                   file>>

\* One iteration of "for row in results: w.writerow(row)".
WriteRow ==
    /\ main_pc = "write"
    /\ written < Len(results)
    /\ file' = [file EXCEPT !.lines = Append(@, RowLine(results[written + 1]))]
    /\ written' = written + 1
    /\ UNCHANGED <<simVars, invocations, dims, task, sem_value, sem_waiters, results, main_pc>>

\* The loop over the results is over: the file is closed and main returns.
MainReturns ==
    /\ main_pc = "write"
    /\ written >= Len(results)
    /\ main_pc' = "done"
    /\ invocations' = [invocations EXCEPT !.returned = @ + 1]
    /\ UNCHANGED <<simVars, dims, task, sem_value, sem_waiters, results, written,
                   file>>

\* A task has raised: gather, called without return_exceptions, raises that
\* exception in main, which leaves "with OUT.open" and ends; the other
\* tasks are as they were, a waiter to which a slot was handed included.
\* Every task has taken its first step by then.
GatherRaises ==
    /\ main_pc = "gather"
    /\ AllStarted
    /\ Failed # {}
    /\ main_pc' = "raised"
    /\ UNCHANGED <<simVars, invocations, dims, task, sem_value, sem_waiters,
                   results, written, file>>

SeqWithout(q, c) ==
    LET Other(x) == x # c
    IN  SelectSeq(q, Other)

\* main has ended by the exception and asyncio.run cancels the tasks that
\* have not ended, each of them processing its cancellation in a step of
\* its own, in any order: a task that holds a slot releases it on its way
\* out of "async with", one that waits for a slot leaves the queue.  From
\* the first cancellation on no task takes another step.
TaskCancelled(c) ==
    /\ main_pc = "raised"
    /\ task[c] \in {"created", "waiting", "running"}
    /\ task' = [task EXCEPT ![c] = "cancelled"]
    /\ sem_value' = IF task[c] = "running" THEN sem_aexit(sem_value, TRUE)
                                           ELSE sem_value
    /\ sem_waiters' = SeqWithout(sem_waiters, c)
    /\ UNCHANGED <<simVars, invocations, dims, results, main_pc, written, file>>

NextSweep ==
    \/ MainStart
    \/ \E c \in Cells : TaskStart(c)
    \/ \E c \in Cells : TaskStartRaises(c)
    \/ \E c \in Cells : TaskWake(c)
    \/ \E c \in Cells : CellReturns(c)
    \/ \E c \in Cells : CellRaises(c)
    \/ GatherReturns
    \/ GatherRaises
    \/ \E c \in Cells : TaskCancelled(c)
    \/ WriteRow
    \/ MainReturns

SpecSweep == InitSweep /\ [][NextSweep]_vars

(***************************************************************************)
(* Properties of the sweep (SpecSweep).                                    *)
(***************************************************************************)
\* The rows of the file, in the order in which they were written.
RowsOf(lines) ==
    LET IsRow(l) == l.kind = "row"
        sel == SelectSeq(lines, IsRow)
    IN  [k \in 1..Len(sel) |-> sel[k].row]

\* The key columns of a row, and the key of a cell of the grid.
RowKey(row) ==
    <<row.voters, row.failure_rate, row.base_latency_ms, row.dos,
      row.replication_factor>>

CellKey(params) ==
    <<params[1], params[2], params[3], IntOfBool(params[4]), params[5]>>

KeysOf(grid) == {CellKey(grid[c]) : c \in 1..Len(grid)}

\* C4 (sweep completeness): the grid of dimension sizes (3,2,2,2,2) has 48
\* cells with 48 distinct keys; and a sweep in which no cell failed, once
\* main has returned, has written as many rows as its grid has cells, one
\* for every key of the grid, each with replicates = 10.
C4_SweepComplete ==
    /\ main_pc = "start" =>
          /\ Len(param_grid(FullDims)) = 48
          /\ Cardinality(KeysOf(param_grid(FullDims))) = 48
    /\ main_pc = "done" =>
          LET rows == RowsOf(file.lines)
          IN  /\ Len(rows) = GridSize(dims)
              /\ Len(rows) = Len(param_grid(dims))
              /\ {RowKey(rows[k]) : k \in 1..Len(rows)} = KeysOf(param_grid(dims))
              /\ Cardinality({RowKey(rows[k]) : k \in 1..Len(rows)}) = Len(rows)
              /\ \A k \in 1..Len(rows) : rows[k].replicates = 10

C4_Witness ==
    /\ main_pc = "done"
    /\ GridSize(dims) = 12
    /\ Len(RowsOf(file.lines)) = 12
    /\ Failed = {}

\* C5 (output ordering): at every moment the k-th row written is the row of
\* the k-th cell of the grid, and a row is written only when every task is
\* done, whatever the order in which the tasks ended.
C5_RowsInGridOrder ==
    LET rows == RowsOf(file.lines)
    IN  /\ Len(rows) = written
        /\ \A k \in 1..Len(rows) : RowKey(rows[k]) = CellKey(param_grid(dims)[k])
        /\ Len(rows) > 0 =>
              /\ main_pc \in {"write", "done"}
              /\ \A c \in Cells : task[c] = "done" /\ results[c] # NoRow

\* All the rows of the 12-cell grid, whose last four cells had to wait for
\* a slot, are written.
C5_Witness ==
    /\ GridSize(dims) > SemaphoreSlots
    /\ written = GridSize(dims)
    /\ Len(RowsOf(file.lines)) = GridSize(dims)

\* C6 (concurrency bound): at most 8 tasks hold a slot; the free slots are
\* never negative; and a cell whose task has not acquired a slot (it is
\* created, or waits) has produced no result.
C6_AtMostEightRunning ==
    /\ Cardinality(Holding) <= 8
    /\ sem_value >= 0
    /\ \A c \in Cells :
          task[c] \in {"created", "waiting"} =>
              /\ results[c] = NoRow
              /\ (task[c] = "waiting") = (\E k \in 1..Len(sem_waiters) : sem_waiters[k] = c)

\* Eight cells run and others wait for a slot.
C6_Witness ==
    /\ Cardinality(Holding) = 8
    /\ sem_value = 0
    /\ Len(sem_waiters) >= 2
    /\ \E c \in Cells : task[c] = "done"

\* C7 (unconditional release): the slots held and the free slots add up to
\* 8 as long as the sweep runs, a task that failed, returned or was
\* cancelled holding none; so all 8 slots are free once no task runs.
C7_SlotsReleased ==
    main_pc # "start" =>
        /\ sem_value + Cardinality(Holding) = 8
        /\ Holding = {} => sem_value = 8

\* A cell has failed while other cells still run and others wait.
C7_Witness ==
    /\ Failed # {}
    /\ Holding # {}
    /\ sem_waiters # <<>>
    /\ sem_value = 1
    /\ main_pc = "gather"

\* C8 (failure isolation): a cell that raises does not abort the sweep: main
\* does not end by the exception, no other task is cancelled, and when main
\* has ended the row of every cell that did not fail is in the file.
C8_FailureIsolated ==
    Failed # {} =>
        /\ main_pc # "raised"
        /\ \A c \in Cells : task[c] # "cancelled"
        /\ main_pc = "done" =>
              \A c \in Cells \ Failed :
                  \E k \in 1..Len(RowsOf(file.lines)) :
                      RowKey(RowsOf(file.lines)[k]) = CellKey(param_grid(dims)[c])

(***************************************************************************)
(* SpecConc: two runs of simulate that the gate has admitted together, as  *)
(* one_cell starts them (jitter on, no burst drops, byzantine_prob 0),     *)
(* in one process: at each asyncio.sleep the event loop may resume either  *)
(* run, and both runs draw from the generator of module random.            *)
(***************************************************************************)
ConcConfigs ==
    { p \in Configs :
        /\ ValidConfig(p)
        /\ p.votes > 0
        /\ p.jitter
        /\ ~p.burst_drop
        /\ p.byzantine_prob = 0
        /\ p.failure_rate \in {0, 10} }

\* The draws between two awaits are at most those of the end of an attempt,
\* of the head of the next vote and of the start of its first attempt.
MaxDraws == BeginVoteDraws + 2

InitConc ==
    /\ \E p \in ConcConfigs, q \in ConcConfigs :
          runs = <<simulate_init(p, 0), simulate_init(q, 0)>>
    /\ \E x \in 0..MaxSeed : rng = [seed |-> x, state |-> x]
    /\ SweepIdle

\* A run that has not taken its first step.
NotStarted(st) == st.pc = "for_votes" /\ st.i = 0

\* A step of one run, from one asyncio.sleep to the next, on the draws that
\* the generator yields next.  The runs take their first steps in the order
\* in which gather created them, before any sleep ends.  After that the
\* event loop resumes the run whose timer is due first on the loop's clock;
\* the loop wakes late, by an amount that differs from sleep to sleep, so
\* either run may be the one resumed.
ConcStep(id) ==
    /\ ~Ended(runs[id])
    /\ \A other \in {1, 2} \ {id} :
           NotStarted(runs[other]) => (NotStarted(runs[id]) /\ id < other)
    /\ LET step == SimStep(runs[id], RngTape(rng.state, MaxDraws))
       IN  /\ runs' = [runs EXCEPT ![id] = step.st]
           /\ rng' = [rng EXCEPT !.state = RngAdvance(@, step.k)]
    /\ UNCHANGED sweepVars

NextConc == \E id \in {1, 2} : ConcStep(id)

SpecConc == InitConc /\ [][NextConc]_vars

\* The run simulate(**p) alone in a process whose generator starts in x.
RECURSIVE RunAlone(_, _)
RunAlone(st, x) ==
    IF Ended(st) THEN st
    ELSE LET step == SimStep(st, RngTape(x, MaxDraws))
         IN  RunAlone(step.st, RngAdvance(x, step.k))

Outcome(st) ==
    [accepted |-> Accepted(st), tampered |-> st.tampered_detected,
     latencies |-> st.latencies]

\* C10 (determinism under seed): a run that has returned has the accepted
\* count, the tampered-detected count and the latency sample of the run
\* with the same parameters alone in a process with the same seed, however
\* the run admitted with it interleaved.
C10_DeterministicUnderSeed ==
    \A id \in {1, 2} :
        Returned(runs[id]) =>
            Outcome(runs[id]) =
                Outcome(RunAlone(simulate_init(runs[id].p, 0), rng.seed))

(***************************************************************************)
(* sweep.py: ci95.  The samples are integers; a mean is a fraction; the    *)
(* half-width 1.96 * s / sqrt(n) is kept exactly, as the square root of    *)
(* the fraction 1.96^2 * s^2 / n.                                          *)
(***************************************************************************)
MaxSamples == 3      \* the sample lists have 0..MaxSamples values

MinSamples == 2      \* if len(xs) < 2
Z95Hundredths == 196 \* 1.96

Sqrt(q) == [sqrt_of |-> q]

\* statistics.mean(xs)
Mean(xs) == Frac(SumSeq(xs), Len(xs))

\* The sum of the squared deviations from the mean, times len(xs)^2.
RECURSIVE SumSqDev(_, _, _)
SumSqDev(xs, n, total) ==
    IF xs = <<>> THEN 0
    ELSE (n * Head(xs) - total) * (n * Head(xs) - total)
         + SumSqDev(Tail(xs), n, total)

\* statistics.variance(xs), the square of statistics.stdev(xs): the sum of
\* the squared deviations over n - 1.
Variance(xs) ==
    LET n == Len(xs)
    IN  Frac(SumSqDev(xs, n, SumSeq(xs)), n * n * (n - 1))

\* ci95 with the test "len(xs) < least" in place of "len(xs) < 2".
\* statistics.stdev raises StatisticsError on fewer than two values.
ci95_from(xs, least) ==
    LET n == Len(xs)
        v == Variance(xs)
    IN  IF n < least
          THEN [pc |-> "returned",
                out |-> [m |-> Frac(0, 1), half |-> Sqrt(Frac(0, 1))]]
        ELSE IF n < 2
          THEN [pc |-> "StatisticsError", out |-> NoStats.out]
        ELSE [pc |-> "returned",
              out |-> [m |-> Mean(xs),
                       half |-> Sqrt(Frac(Z95Hundredths * Z95Hundredths * v.num,
                                          100 * 100 * v.den * n))]]

\* ci95 that lets a single sample through.
ci95_single(xs) == ci95_from(xs, 1)

\* ci95(xs): (0.0, 0.0) on fewer than 2 samples, else the mean and the
\* half-width of the 95% confidence interval.
ci95(xs) == ci95_from(xs, MinSamples)

SampleValues == {0, 1, 3, 10}

SampleLists == UNION { [1..n -> SampleValues] : n \in 0..MaxSamples }

(***************************************************************************)
(* SpecCi: one call of ci95 on any list of samples.                        *)
(***************************************************************************)
InitCi ==
    /\ runs = <<>>
    /\ rng = NoRng
    /\ dims = <<>>
    /\ task = <<>>
    /\ sem_value = 0
    /\ sem_waiters = <<>>
    /\ results = <<>>
    /\ main_pc = "idle"
    /\ written = 0
    /\ file = [exists |-> FALSE, lines |-> <<>>]
    /\ invocations = NoInvocations
    /\ cells = <<>>
    /\ \E xs \in SampleLists : stats = [NoStats EXCEPT !.pc = "call", !.xs = xs]

Ci95Call ==
    /\ stats.pc = "call"
    /\ LET r == ci95(stats.xs)
       IN  stats' = [stats EXCEPT !.pc = r.pc, !.out = r.out]
    /\ UNCHANGED <<runs, rng, dims, task, sem_value, sem_waiters, results,
                   main_pc, written, file, invocations, cells>>

NextCi == Ci95Call

SpecCi == InitCi /\ [][NextCi]_vars

\* The float 0.0 as a mean, and as a half-width.
ZeroMean(f) == f.den # 0 /\ f.num = 0
ZeroHalf(h) == h.sqrt_of.den # 0 /\ h.sqrt_of.num = 0

ConstantList(xs) == \A k \in 1..Len(xs) : xs[k] = xs[1]

\* C11 (CI aggregator boundary): a call of ci95 never fails; on fewer than 2
\* samples it returns (0.0, 0.0); on a constant list of 2 or more samples
\* it returns (that constant, 0.0).
C11_Ci95Boundary ==
    stats.pc # "call" =>
        /\ stats.pc = "returned"
        /\ Len(stats.xs) < 2 =>
              ZeroMean(stats.out.m) /\ ZeroHalf(stats.out.half)
        /\ (Len(stats.xs) >= 2 /\ ConstantList(stats.xs)) =>
              /\ stats.out.m.den # 0
              /\ FracIs(stats.out.m, stats.xs[1])
              /\ ZeroHalf(stats.out.half)

\* ci95 has returned (10, 0.0) on a list of 10s of the greatest length.
C11_Witness ==
    /\ stats.pc = "returned"
    /\ Len(stats.xs) = MaxSamples
    /\ ConstantList(stats.xs)
    /\ stats.xs[1] = 10
    /\ FracIs(stats.out.m, 10)
    /\ ZeroHalf(stats.out.half)

(***************************************************************************)
(* Further properties of one run (Spec).                                   *)
(***************************************************************************)
\* What a step of the run does to the Capital: nothing, or what one call of
\* Capital.receive does, on a tampered arrival or on an untampered one.
CapitalUntouched == runs'[1].capital = runs[1].capital

CapitalRejects ==
    /\ runs'[1].capital.tampered = runs[1].capital.tampered + 1
    /\ runs'[1].capital.received = runs[1].capital.received
    /\ runs'[1].tampered

CapitalAccepts ==
    /\ runs'[1].capital.tampered = runs[1].capital.tampered
    /\ runs'[1].capital.received =
           Append(runs[1].capital.received, <<runs[1].data, runs'[1].now>>)
    /\ ~Contains(runs[1].data, "tampered")
    /\ runs'[1].success

\* The step in which the run calls capital.receive: the sleep of head.send
\* is over and the head, whose failure_rate is 0, hands on what it holds.
CapitalReceives == runs[1].pc = "sleep_head_send"

\* The records that were in the accepted list are still there, unaltered
\* and at the same places.
ReceivedKept ==
    /\ Len(runs'[1].capital.received) >= Len(runs[1].capital.received)
    /\ \A n \in 1..Len(runs[1].capital.received) :
           runs'[1].capital.received[n] = runs[1].capital.received[n]

\* C12 (Collector contract): every call of Capital.receive gets an arrival
\* that is tampered or not. On a tampered arrival it adds exactly 1 to the
\* tampered count, returns False (ok is False, the flag tampered is set and
\* the flag success stays as it was) and leaves the accepted list as it is.
\* On an untampered arrival it appends exactly one record, (the arriving
\* data, now), to the end of the accepted list, returns True (ok is True,
\* the flag success is set and the flag tampered stays as it was) and
\* leaves the tampered count as it is. No other step of the run changes
\* the Capital, and no step removes or alters a record of the accepted
\* list.
C12_CollectorContract ==
    [][/\ CapitalReceives =>
             IF Contains(runs[1].data, "tampered")
               THEN /\ CapitalRejects
                    /\ runs'[1].ok = Some(FALSE)
                    /\ runs'[1].success = runs[1].success
               ELSE /\ CapitalAccepts
                    /\ runs'[1].ok = Some(TRUE)
                    /\ runs'[1].tampered = runs[1].tampered
                    /\ Len(runs'[1].capital.received)
                           = Len(runs[1].capital.received) + 1
       /\ ~CapitalReceives => CapitalUntouched
       /\ ReceivedKept]_vars

\* The Capital has accepted an arrival of a vote, so that success is set,
\* and has then rejected a tampered arrival of the same vote: the call has
\* returned False, the record is still in the accepted list.
C12_Witness ==
    LET st == runs[1]
    IN  /\ st.pc = "for_repl"
        /\ st.ok = Some(FALSE)
        /\ st.success
        /\ st.tampered
        /\ st.capital.tampered = 1
        /\ Len(st.capital.received) = 1
        /\ st.capital.received[1][1] = st.vote

\* The attempts a run has made: replication_factor for every vote it is
\* done with, and r for the vote it is at.
Attempts(st) ==
    st.i * st.p.replication_factor
        + (IF st.pc = "for_repl" \/ Asleep(st) THEN st.r ELSE 0)

\* The attempts that reached the Capital, and those lost on the way.
Arrivals(st) == Accepted(st) + st.capital.tampered
LostAttempts(st) == Attempts(st) - Arrivals(st)

\* A step that is a part of an iteration of the replication loop, and the
\* step that ends an iteration.
AttemptPart ==
    \/ runs[1].pc = "for_repl" /\ Asleep(runs'[1])
    \/ Asleep(runs[1])

AttemptMade == Asleep(runs[1]) /\ runs'[1].pc = "for_repl"

\* The steps that begin a vote and that end one.
VoteBegun == runs[1].pc = "for_votes" /\ runs'[1].pc = "for_repl"
VoteEnded == runs[1].pc = "for_repl" /\ runs'[1].pc = "for_votes"

AttemptCounts ==
    LET st == runs[1]
    IN  /\ st.r <= st.p.replication_factor
        /\ (st.pc = "for_votes" /\ st.i > 0) => st.r = st.p.replication_factor
        /\ LostAttempts(st) >= 0
        /\ Returned(st) =>
              /\ Attempts(st) = st.p.votes * st.p.replication_factor
              /\ Accepted(st) + st.capital.tampered + LostAttempts(st)
                     = st.p.votes * st.p.replication_factor

\* C13 (attempt outcomes): every iteration of the replication loop is one
\* attempt and ends lost (the Capital unchanged), accepted (one record
\* added) or rejected as tampered (tampered count plus one), no other step
\* counting an attempt or changing the Capital; a vote is left
\* only after replication_factor attempts, so that when the run returns the
\* accepted, the rejected and the lost attempts add up to
\* votes * replication_factor.
C13_AttemptOutcomes ==
    /\ []AttemptCounts
    /\ [][/\ AttemptMade =>
                /\ runs'[1].r = runs[1].r + 1
                /\ CapitalUntouched \/ CapitalRejects \/ CapitalAccepts
          /\ ~AttemptMade =>
                /\ runs'[1].r = runs[1].r \/ (VoteBegun /\ runs'[1].r = 0)
                /\ CapitalUntouched]_vars

\* A run of 2 votes and 2 attempts each has returned with an accepted, a
\* rejected and a lost attempt.
C13_Witness ==
    LET st == runs[1]
    IN  /\ Returned(st)
        /\ st.p.votes = 2 /\ st.p.replication_factor = 2
        /\ Accepted(st) >= 1
        /\ st.capital.tampered >= 1
        /\ LostAttempts(st) >= 1

\* The Capital's tampered count goes up in this step.
RejectedNow == runs'[1].capital.tampered > runs[1].capital.tampered

TamperCounts ==
    LET st == runs[1]
    IN  /\ st.tampered_detected <= st.i
        /\ st.i <= st.p.votes
        /\ st.tampered_detected <= st.capital.tampered
        /\ Returned(st) =>
              /\ st.tampered_detected <= st.p.votes
              /\ st.result.tamper_rate.den > 0
              /\ st.result.tamper_rate.num >= 0
              /\ st.result.tamper_rate.num <= 100 * st.result.tamper_rate.den

\* C14 (tamper detection is counted once per vote): the flag tampered is
\* False when a vote begins and is True from the first attempt of the vote
\* that the Capital rejects; when the vote ends tampered_detected goes up
\* by 1 if the flag is True, accepted attempt or not, and by 0 otherwise,
\* and no other step changes it; so tampered_detected <= votes and the
\* tamper_rate returned is within [0, 100].
C14_TamperOncePerVote ==
    /\ []TamperCounts
    /\ [][/\ VoteBegun => ~runs'[1].tampered
          /\ AttemptPart => (runs'[1].tampered = (runs[1].tampered \/ RejectedNow))
          /\ VoteEnded =>
                runs'[1].tampered_detected =
                    runs[1].tampered_detected + (IF runs[1].tampered THEN 1 ELSE 0)
          /\ ~VoteEnded =>
                runs'[1].tampered_detected = runs[1].tampered_detected]_vars

\* A vote with two rejected attempts and a vote with an accepted and a
\* rejected attempt have ended: 3 rejections, 2 votes counted.
C14_Witness ==
    LET st == runs[1]
    IN  /\ Returned(st)
        /\ st.success /\ st.tampered
        /\ st.tampered_detected = 2
        /\ st.capital.tampered = 3
        /\ FracIs(st.result.tamper_rate, 100)

(***************************************************************************)
(* SpecAppend: sweep.py run again and again on the file that the earlier   *)
(* runs left.  The grids are sub-grids of 2 and of 4 cells; no task waits  *)
(* for a slot, a grid having fewer cells than the semaphore has slots.     *)
(***************************************************************************)
MaxInvocations == 2  \* runs of sweep.py: at most MaxInvocations

AppendDims == { <<2, 1, 1, 1, 1>>, <<1, 1, 1, 2, 2>> }

InitAppend ==
    /\ runs = <<>>
    /\ rng = NoRng
    /\ dims \in AppendDims
    /\ task = <<>>
    /\ sem_value = 0
    /\ sem_waiters = <<>>
    /\ results = <<>>
    /\ main_pc = "start"
    /\ written = 0
    /\ file = [exists |-> FALSE, lines |-> <<>>]
    /\ invocations = NoInvocations
    /\ stats = NoStats
    /\ cells = <<>>

\* The process of sweep.py has ended, main having returned or raised, and
\* sweep.py is run again: nothing is left of the earlier run but the file.
MainAgain ==
    /\ main_pc \in {"done", "raised"}
    /\ \A c \in Cells : task[c] \in {"done", "failed", "cancelled"}
    /\ invocations.started < MaxInvocations
    /\ main_pc' = "start"
    /\ task' = <<>>
    /\ results' = <<>>
    /\ sem_value' = 0
    /\ sem_waiters' = <<>>
    /\ written' = 0
    /\ UNCHANGED <<simVars, invocations, dims, file>>

NextAppend ==
    \/ MainStart
    \/ \E c \in Cells : TaskStart(c)
    \/ \E c \in Cells : TaskStartRaises(c)
    \/ \E c \in Cells : CellReturns(c)
    \/ \E c \in Cells : CellRaises(c)
    \/ GatherReturns
    \/ GatherRaises
    \/ \E c \in Cells : TaskCancelled(c)
    \/ WriteRow
    \/ MainReturns
    \/ MainAgain

SpecAppend == InitAppend /\ [][NextAppend]_vars

\* The header rows of the file.
HeadersOf(lines) ==
    LET IsHeader(l) == l.kind = "header"
    IN  SelectSeq(lines, IsHeader)

IsPrefix(s, t) == Len(s) <= Len(t) /\ \A k \in 1..Len(s) : t[k] = s[k]

\* The file holds one header row, its first row, then the rows of the grid
\* once for every run of sweep.py that has returned, in the order of the
\* runs, then the rows that the run under way has written.
FileAccumulates ==
    LET rows == RowsOf(file.lines)
        size == GridSize(dims)
    IN  /\ file.exists = (invocations.started > 0)
        /\ file.exists =>
              /\ Len(file.lines) >= 1
              /\ file.lines[1] = HeaderLine
              /\ Len(HeadersOf(file.lines)) = 1
        /\ Len(rows) = invocations.returned * size
                         + (IF main_pc = "write" THEN written ELSE 0)
        /\ \A k \in 1..Len(rows) :
              /\ RowKey(rows[k]) = CellKey(param_grid(dims)[((k - 1) % size) + 1])
              /\ rows[k].replicates = Reps

\* C15 (idempotent append of the output file): starting from no file, the
\* file holds at every moment exactly one header row, as its first row, and
\* after it the rows of the grid once for each run of sweep.py that has
\* returned, in the order of the runs; a header row is written only by a
\* step that finds no file; and no step removes or rewrites a line.
C15_IdempotentAppend ==
    /\ []FileAccumulates
    /\ [][/\ IsPrefix(file.lines, file'.lines)
          /\ Len(HeadersOf(file'.lines)) > Len(HeadersOf(file.lines)) => ~file.exists]_vars

\* Two runs of sweep.py on the 4-cell grid have returned: a header row and
\* 8 rows.
C15_Witness ==
    /\ invocations.returned = 2
    /\ main_pc = "done"
    /\ GridSize(dims) = 4
    /\ Len(file.lines) = 9
    /\ Len(HeadersOf(file.lines)) = 1

ProbsInRange(p) ==
    InRange(p.failure_rate) /\ InRange(p.p_burst) /\ InRange(p.byzantine_prob)

\* C16 (probabilities stay in [0,1]): in a run whose failure_rate, p_burst
\* and byzantine_prob are in [0,1], the failure_rate of the node that an
\* attempt reads, the DoS and the burst step done, is in [0,1] and is the
\* base failure_rate, max(failure_rate, 0.5) or p_burst; it is the base
\* failure_rate when DoS and burst drops are off; the head's failure_rate
\* and byzantine_prob are in [0,1] too.
C16_ProbabilitiesInRange ==
    LET st == runs[1]
    IN  (ProbsInRange(st.p) /\ st.pc = "for_repl") =>
            /\ InRange(st.node.failure_rate)
            /\ st.node.failure_rate \in
                   {st.p.failure_rate, Max(st.p.failure_rate, DosFailure), st.p.p_burst}
            /\ (~st.p.dos_attack /\ ~st.p.burst_drop) =>
                   st.node.failure_rate = st.p.failure_rate
            /\ InRange(st.head.failure_rate)
            /\ InRange(st.head.byzantine_prob)

\* An attempt of an escalated vote was made at max(0.1, 0.5) = 0.5.
C16_Witness ==
    LET st == runs[1]
    IN  /\ st.pc = "for_repl"
        /\ st.r = 1
        /\ st.escalated
        /\ st.p.failure_rate = 10
        /\ st.node.failure_rate = DosFailure
        /\ st.p.p_burst # DosFailure

\* C17 (burst precedence): a vote that begins while a burst is active is
\* sent with failure_rate p_burst also when it is escalated by the DoS step
\* (its latency being the escalated one), and no attempt of the vote
\* changes the node's failure_rate or latency.
C17_BurstPrecedence ==
    [][/\ (VoteBegun /\ runs[1].p.burst_drop /\ runs[1].burst_active) =>
              /\ runs'[1].node.failure_rate = runs[1].p.p_burst
              /\ runs'[1].escalated =>
                    runs'[1].node.latency = runs[1].base_latency * DosSlowdown
       /\ AttemptPart => runs'[1].node = runs[1].node]_vars

\* Both attempts of an escalated vote were made at p_burst = 0, lower than
\* max(0.1, 0.5).
C17_Witness ==
    LET st == runs[1]
    IN  /\ st.pc = "for_repl"
        /\ st.r = 2
        /\ st.escalated
        /\ st.p.burst_drop
        /\ st.p.failure_rate = 10
        /\ st.p.p_burst = 0
        /\ st.node.failure_rate = 0

(***************************************************************************)
(* SpecBurst: one run of simulate with more votes, long enough for a burst *)
(* of every length to begin, last and end: no jitter, no tampering, one    *)
(* attempt a vote.                                                         *)
(***************************************************************************)
MaxBurstVotes == 4   \* votes of a run of SpecBurst: 1..MaxBurstVotes

BurstRunConfigs ==
    { Config(v, d, f, b, 1, FALSE, bc[1], bc[2], bc[3], 0) :
        v \in 1..MaxBurstVotes, d \in BOOLEAN, f \in {0, 10}, b \in BaseLatencies,
        bc \in BurstConfigs }

InitBurst ==
    /\ \E p \in BurstRunConfigs : runs = <<simulate_init(p, 0)>>
    /\ rng = NoRng
    /\ SweepIdle

SpecBurst == InitBurst /\ [][Next]_vars

\* The rate and the latency that the DoS step alone leaves.
DosValues(st) ==
    IF st.escalated
      THEN [failure_rate |-> Max(st.p.failure_rate, DosFailure),
            latency |-> st.base_latency * DosSlowdown]
      ELSE [failure_rate |-> st.p.failure_rate, latency |-> st.base_latency]

BurstCounterInv ==
    LET st == runs[1]
    IN  /\ ~st.burst_active => st.burst_counter = 0
        /\ st.burst_counter >= 0
        /\ st.burst_counter < st.p.burst_len
        /\ ~st.p.burst_drop => ~st.burst_active

\* A vote begins while the machine is BURSTING: it is sent with p_burst and
\* counted; the machine is NORMAL, its counter 0, once burst_len votes are
\* counted.
BurstingVote ==
    LET counter == runs[1].burst_counter + 1
    IN  /\ runs'[1].node.failure_rate = runs[1].p.p_burst
        /\ IF counter >= runs[1].p.burst_len
             THEN ~runs'[1].burst_active /\ runs'[1].burst_counter = 0
             ELSE runs'[1].burst_active /\ runs'[1].burst_counter = counter

\* A vote begins while the machine is NORMAL: it is sent with what the DoS
\* step left, and the machine may become BURSTING, its counter 0.
NormalVote ==
    /\ runs'[1].node.failure_rate = DosValues(runs'[1]).failure_rate
    /\ runs'[1].burst_counter = 0
    /\ runs'[1].burst_active => runs[1].p.burst_drop

\* C18 (burst-outage state machine): with burst drops on, the votes that
\* begin while the machine is BURSTING are sent with failure_rate p_burst,
\* the counter counts them and the machine is NORMAL with its counter 0
\* after the burst_len-th of them, which are thus consecutive and burst_len
\* in number; the counter is 0 when the machine is NORMAL and below
\* burst_len between votes; a vote that begins while the machine is NORMAL
\* is not forced to p_burst; only the head of a vote changes the machine;
\* with burst drops off the machine is never BURSTING.
C18_BurstMachine ==
    /\ []BurstCounterInv
    /\ [][/\ (VoteBegun /\ runs[1].burst_active) => BurstingVote
          /\ (VoteBegun /\ ~runs[1].burst_active) => NormalVote
          /\ ~VoteBegun =>
                /\ runs'[1].burst_active = runs[1].burst_active
                /\ runs'[1].burst_counter = runs[1].burst_counter]_vars

\* A run of 4 votes with failure_rate 0, p_burst 1 and burst_len 2 has
\* returned: the burst began at vote 0; votes 1 and 2 were lost, votes 0
\* and 3 accepted.
C18_Witness ==
    LET st == runs[1]
    IN  /\ Returned(st)
        /\ st.p.burst_drop /\ st.p.burst_len = 2 /\ st.p.p_burst = 100
        /\ st.p.failure_rate = 0 /\ ~st.p.dos_attack
        /\ st.p.votes = 4
        /\ Accepted(st) = 2
        /\ st.capital.received[1][1] = <<"vote", "0">>
        /\ st.capital.received[2][1] = <<"vote", "3">>
        /\ ~st.burst_active /\ st.burst_counter = 0

\* The vote that begins is in a burst: it finds the machine BURSTING.
InBurst == runs[1].p.burst_drop /\ runs[1].burst_active

\* What holds of the latency of every vote, of the votes not selected, and
\* of the runs with DoS off.
DosLatencyAndBaseline ==
    /\ VoteBegun =>
          /\ runs'[1].node.latency = DosValues(runs'[1]).latency
          /\ (~runs'[1].escalated /\ ~InBurst) =>
                runs'[1].node.failure_rate = runs[1].p.failure_rate
          /\ ~runs[1].p.dos_attack => ~runs'[1].escalated
    /\ AttemptPart => runs'[1].node = runs[1].node

\* C19 as stated (DoS escalation lasts one vote): a vote selected for
\* escalation is sent with failure_rate max(failure_rate, 0.5) and latency
\* 5 * base_latency; a vote not selected and not in a burst is sent with
\* failure_rate and base_latency, whatever the vote before it was; with
\* dos_attack off no vote is escalated.
C19_EscalatedAlwaysMax ==
    [][/\ DosLatencyAndBaseline
       /\ (VoteBegun /\ runs'[1].escalated) =>
              runs'[1].node.failure_rate = Max(runs[1].p.failure_rate, DosFailure)]_vars

\* C19 as amended: a vote selected for escalation is sent with latency
\* 5 * base_latency, and with failure_rate max(failure_rate, 0.5) if it is
\* not in a burst, p_burst if it is; a vote not selected and not in a burst
\* is sent with failure_rate and base_latency, whatever the vote before it
\* was; with dos_attack off no vote is escalated.
C19_EscalatedMaxOutsideBurst ==
    [][/\ DosLatencyAndBaseline
       /\ (VoteBegun /\ runs'[1].escalated /\ ~InBurst) =>
              runs'[1].node.failure_rate = Max(runs[1].p.failure_rate, DosFailure)
       /\ (VoteBegun /\ runs'[1].escalated /\ InBurst) =>
              runs'[1].node.failure_rate = runs[1].p.p_burst]_vars

\* Vote 0 was escalated and accepted after 5 * base_latency and the two
\* delays of the head; vote 1, not selected, is sent with the base values.
C19_Witness ==
    LET st == runs[1]
    IN  /\ st.pc = "for_repl" /\ st.i = 1 /\ st.r = 1
        /\ st.p.dos_attack /\ ~st.p.jitter /\ ~st.p.burst_drop
        /\ st.p.failure_rate = 10
        /\ st.latencies = <<st.base_latency * DosSlowdown + 2 * st.head.latency>>
        /\ ~st.escalated
        /\ st.node.failure_rate = 10
        /\ st.node.latency = st.base_latency

\* The votes that the Capital has accepted at least once.
AcceptedVotes(st) ==
    {st.capital.received[k][1] : k \in 1..Len(st.capital.received)}

\* C20 (latency sample): when a vote has ended, the sample holds one value
\* for every vote accepted at least once and none for the others; the value
\* of the vote that has just ended, if it was accepted, is the time from
\* the start of the vote to a moment at which the Capital accepted it, the
\* attempts made after the acceptance not counted; and avg_latency is 0
\* when the sample is empty.
C20_LatencyToAcceptance ==
    LET st == runs[1]
        n == Len(st.latencies)
    IN  /\ (st.pc = "for_votes" /\ st.i > 0) =>
              /\ n = Cardinality(AcceptedVotes(st))
              /\ st.success = (st.vote \in AcceptedVotes(st))
              /\ st.success =>
                    \E k \in 1..Len(st.capital.received) :
                        /\ st.capital.received[k][1] = st.vote
                        /\ st.latencies[n] = st.capital.received[k][2] - st.t0
        /\ (Returned(st) /\ n = 0) => FracIs(st.result.avg_latency, 0)

\* C23 (the accepted count is a count of votes): when a vote has ended the
\* Capital holds as many records as there are votes accepted at least once,
\* which is the length of the latency sample; the success_rate and the
\* throughput returned are computed from that number, and the success_rate
\* is at most 100.
C23_AcceptedCountsVotes ==
    LET st == runs[1]
    IN  /\ (st.pc = "for_votes" /\ st.i > 0) => Accepted(st) = Len(st.latencies)
        /\ Returned(st) =>
              /\ Accepted(st) = Len(st.latencies)
              /\ st.result.success_rate = Rate(Len(st.latencies), st)
              /\ st.result.throughput.num = Len(st.latencies)
              /\ FracLe(st.result.success_rate, Frac(100, 1))

(***************************************************************************)
(* SpecFine: the runs of Spec without jitter whose probabilities are in    *)
(* [0, 1].                                                                 *)
(***************************************************************************)
FineConfigs == { p \in Configs : ~p.jitter /\ ProbsInRange(p) }

InitFine ==
    /\ \E p \in FineConfigs : runs = <<simulate_init(p, 0)>>
    /\ rng = NoRng
    /\ SweepIdle

SpecFine == InitFine /\ [][Next]_vars

\* The head is as Head.__init__ made it; the run has counted no more
\* tampered votes than the Capital has rejected arrivals.
HeadNeverDrops ==
    LET st == runs[1]
    IN  /\ st.head.failure_rate = 0
        /\ st.head.byzantine_prob = st.p.byzantine_prob
        /\ st.head.latency = st.base_latency * HeadFactor
        /\ st.tampered_detected <= st.capital.tampered
        /\ ~Contains(st.vote, "tampered")
        /\ st.pc \in {"sleep_head_receive", "sleep_head_send"} =>
              st.data \in {st.vote, Append(st.vote, "tampered")}

\* C24 (the tampered flag is set by rejections only): the head's
\* failure_rate is 0 for the whole run, whatever the DoS and the burst step
\* do; what the head sends on always arrives at the Capital, which rejects
\* it if and only if the head has tampered with it in this attempt; the
\* flag tampered becomes True only in a step in which the Capital rejects
\* an arrival, never when an attempt is lost; so tampered_detected never
\* exceeds the Capital's tampered count.
C24_TamperedOnlyByRejection ==
    /\ []HeadNeverDrops
    /\ [][/\ runs[1].pc = "sleep_head_send" =>
                /\ Arrivals(runs'[1]) = Arrivals(runs[1]) + 1
                /\ RejectedNow = Contains(runs[1].data, "tampered")
          /\ runs[1].pc # "sleep_head_send" => CapitalUntouched
          /\ (runs'[1].tampered /\ ~runs[1].tampered) => RejectedNow]_vars

\* The node has lost the first attempt of a vote, the head has tampered
\* with the second one and the Capital has rejected it.
C24_Witness ==
    LET st == runs[1]
    IN  /\ st.pc = "for_repl"
        /\ st.r = 2
        /\ st.tampered
        /\ st.capital.tampered = 1
        /\ Accepted(st) = 0
        /\ st.i = 0

(***************************************************************************)
(* SpecCell: two calls of one_cell that the gate has admitted together, in *)
(* one process, each running its replicates of simulate (jitter on, no     *)
(* burst drops, byzantine_prob 0); the second cell is a short one, of one  *)
(* replicate of one vote.  A step is one part of the coroutine             *)
(* that the event loop is running; the loop runs a coroutine up to its     *)
(* next asyncio.sleep before it resumes another one, and both cells draw   *)
(* from the generator of module random.                                    *)
(***************************************************************************)
CellReps == 2        \* reps of one_cell: 10 in sweep.py, CellReps here

CellIds == {1, 2}

CellConfigs ==
    { Config(v, d, f, b, n, TRUE, FALSE, DefaultBurstLen, DefaultPBurst, 0) :
        v \in {1, 2}, d \in BOOLEAN, f \in {10}, b \in BaseLatencies,
        n \in ReplFactors }

ShortCellConfigs ==
    { q \in CellConfigs :
        q.votes = 1 /\ q.replication_factor = 1 /\ ~q.dos_attack }

\* latencies, throughputs, success, tamper = [], [], [], []
one_cell_init(p, reps) ==
    [p |-> p, reps |-> reps, pc |-> "for_reps", started |-> 0,
     latencies |-> <<>>, throughputs |-> <<>>, success |-> <<>>,
     tamper |-> <<>>]

\* for _ in range(reps): whether there is one more replicate to run.
one_cell_more(cell) == cell.started < cell.reps

\* The four appends that follow "await simulate(...)"; avg_lat * 1000.0 is
\* the latency in milliseconds.
one_cell_append(cell, result) ==
    [cell EXCEPT
       !.latencies = Append(@, Frac(result.avg_latency.num,
                                    result.avg_latency.den * UsPerMs)),
       !.throughputs = Append(@, result.throughput),
       !.success = Append(@, result.success_rate),
       !.tamper = Append(@, result.tamper_rate),
       !.pc = "for_reps"]

InitCell ==
    /\ \E p \in CellConfigs, q \in ShortCellConfigs :
          /\ runs = <<simulate_init(p, 0), simulate_init(q, 0)>>
          /\ cells = <<one_cell_init(p, CellReps), one_cell_init(q, 1)>>
    /\ \E x \in 0..MaxSeed : rng = [seed |-> x, state |-> x]
    /\ dims = <<>>
    /\ task = <<>>
    /\ sem_value = 0
    /\ sem_waiters = <<>>
    /\ results = <<>>
    /\ main_pc = "idle"
    /\ written = 0
    /\ file = [exists |-> FALSE, lines |-> <<>>]
    /\ invocations = NoInvocations
    /\ stats = NoStats

cellIdle == <<dims, task, sem_value, sem_waiters, results, main_pc, written,
              file, invocations, stats>>

\* The coroutine of cell c is suspended in an asyncio.sleep of its run.
CellAsleep(c) == cells[c].pc = "in_simulate" /\ Asleep(runs[c])

CellOver(c) == cells[c].pc \in {"returned", "raised"}

\* The coroutine of cell c can run.
CellReady(c) == ~CellAsleep(c) /\ ~CellOver(c)

\* The event loop runs cell c: c is the first coroutine that is ready, the
\* tasks being created in the order of the cells; when every coroutine
\* sleeps, c is one whose timer is due first on the loop's clock, which may
\* be either, the loop waking late by an amount that differs from sleep to
\* sleep.
Scheduled(c) ==
    /\ ~CellOver(c)
    /\ \A d \in CellIds \ {c} :
          IF CellReady(c) THEN CellReady(d) => c < d
          ELSE ~CellReady(d)

\* one_cell calls simulate: the run starts at the time at which the
\* cell's previous run ended.
CellCallSimulate(c) ==
    /\ Scheduled(c)
    /\ cells[c].pc = "for_reps"
    /\ one_cell_more(cells[c])
    /\ runs' = [runs EXCEPT ![c] = simulate_init(cells[c].p, @.now)]
    /\ cells' = [cells EXCEPT ![c].started = @ + 1, ![c].pc = "in_simulate"]
    /\ UNCHANGED <<rng, cellIdle>>

\* One part of the run of cell c, on the draws the generator yields next.
CellSimPart(c) ==
    /\ Scheduled(c)
    /\ cells[c].pc = "in_simulate"
    /\ ~Ended(runs[c])
    /\ LET step == SimPart(runs[c], RngTape(rng.state, MaxDraws), 0)
       IN  /\ runs' = [runs EXCEPT ![c] = step.st]
           /\ rng' = [rng EXCEPT !.state = RngAdvance(@, step.k)]
    /\ UNCHANGED <<cells, cellIdle>>

\* simulate has returned, or raised, into one_cell.
CellSimulateEnds(c) ==
    /\ Scheduled(c)
    /\ cells[c].pc = "in_simulate"
    /\ Ended(runs[c])
    /\ cells' = [cells EXCEPT
                   ![c] = IF Returned(runs[c])
                            THEN one_cell_append(@, runs[c].result)
                            ELSE [@ EXCEPT !.pc = "raised"]]
    /\ UNCHANGED <<runs, rng, cellIdle>>

\* return latencies, throughputs, success, tamper
CellReturn(c) ==
    /\ Scheduled(c)
    /\ cells[c].pc = "for_reps"
    /\ ~one_cell_more(cells[c])
    /\ cells' = [cells EXCEPT ![c].pc = "returned"]
    /\ UNCHANGED <<runs, rng, cellIdle>>

NextCell ==
    \E c \in CellIds :
        \/ CellCallSimulate(c)
        \/ CellSimPart(c)
        \/ CellSimulateEnds(c)
        \/ CellReturn(c)

SpecCell == InitCell /\ [][NextCell]_vars

\* The replicates of cell c that have returned their result.
RepsReturned(c) == Len(cells[c].latencies)

\* At most one replicate of a cell is in flight, and it is the one after
\* those that have returned; a run that sleeps is in the one attempt
\* r < replication_factor of the one vote i < votes.
OneInFlight(c) ==
    /\ cells[c].started <= cells[c].reps
    /\ cells[c].started - RepsReturned(c) \in {0, 1}
    /\ (cells[c].pc = "in_simulate") = (cells[c].started = RepsReturned(c) + 1)
    /\ Len(cells[c].throughputs) = RepsReturned(c)
    /\ Len(cells[c].success) = RepsReturned(c)
    /\ Len(cells[c].tamper) = RepsReturned(c)
    /\ CellAsleep(c) =>
          /\ runs[c].i < runs[c].p.votes
          /\ runs[c].r < runs[c].p.replication_factor
          /\ runs[c].vote = <<"vote", ToString(runs[c].i)>>

\* What a step of cell c is: the start of an attempt, the end of one, the
\* start of a vote, the fold of one, the start of a replicate.
AttemptStarts(c) ==
    runs'[c].pc = "sleep_node_send" /\ runs[c].pc # "sleep_node_send"
AttemptEnds(c) == Asleep(runs[c]) /\ runs'[c].pc = "for_repl"
VoteStarts(c) == runs[c].pc = "for_votes" /\ runs'[c].pc = "for_repl"
VoteFolded(c) == runs[c].pc = "for_repl" /\ runs'[c].pc = "for_votes"
ReplicateStarts(c) == cells'[c].started # cells[c].started

SequentialStep(c) ==
    /\ AttemptStarts(c) =>
          /\ runs[c].pc = "for_repl"
          /\ runs[c].r < runs[c].p.replication_factor
          /\ runs'[c].r = runs[c].r
    /\ runs'[c].r # runs[c].r =>
          \/ AttemptEnds(c) /\ runs'[c].r = runs[c].r + 1
          \/ VoteStarts(c) /\ runs'[c].r = 0
          \/ ReplicateStarts(c) /\ runs'[c].r = 0
    /\ AttemptEnds(c) => runs'[c].r = runs[c].r + 1
    /\ VoteFolded(c) =>
          /\ runs[c].r = runs[c].p.replication_factor
          /\ runs'[c].i = runs[c].i + 1
          /\ Len(runs'[c].latencies) =
                Len(runs[c].latencies) + (IF runs[c].success THEN 1 ELSE 0)
    /\ runs'[c].i # runs[c].i => VoteFolded(c) \/ ReplicateStarts(c)
    /\ runs'[c].vote # runs[c].vote => VoteStarts(c) \/ ReplicateStarts(c)
    /\ VoteStarts(c) =>
          /\ runs'[c].vote = <<"vote", ToString(runs[c].i)>>
          /\ runs'[c].i = runs[c].i
          /\ runs'[c].r = 0
    /\ ReplicateStarts(c) =>
          /\ cells[c].pc = "for_reps"
          /\ cells[c].started = RepsReturned(c)
          /\ cells'[c].started = cells[c].started + 1
          /\ cells[c].started > 0 => Returned(runs[c])
          /\ runs'[c] = simulate_init(cells[c].p, runs[c].now)
    /\ RepsReturned(c) # Len(cells'[c].latencies) =>
          /\ Returned(runs[c])
          /\ Len(cells'[c].latencies) = RepsReturned(c) + 1

\* C21 (strictly sequential processing inside a cell): a cell has at most
\* one replicate, and in it at most one attempt, in flight; an attempt
\* starts only when the one before it has ended, the loop counter r
\* advancing by one per ended attempt; a vote is folded only after its
\* replication_factor attempts, and the next vote starts only from the
\* folded state; a replicate starts only when every replicate started
\* before it has returned and its values were appended; and a step of one
\* cell changes neither the run nor the lists of the other cell.
C21_SequentialInsideCell ==
    /\ [](\A c \in CellIds : OneInFlight(c))
    /\ [][\A c \in CellIds :
             /\ SequentialStep(c)
             /\ (runs'[c] # runs[c] \/ cells'[c] # cells[c]) =>
                   \A d \in CellIds \ {c} :
                       runs'[d] = runs[d] /\ cells'[d] = cells[d]]_vars

\* Cell 1 is in the second attempt of the second vote of its second
\* replicate, an attempt of which was lost, while cell 2 still sleeps in
\* the first sleep of its replicate.
C21_Witness ==
    /\ cells[1].started = 2
    /\ RepsReturned(1) = 1
    /\ runs[1].i = 1
    /\ runs[1].r = 1
    /\ Asleep(runs[1])
    /\ LostAttempts(runs[1]) >= 1
    /\ cells[2].started = 1
    /\ runs[2].pc = "sleep_node_send"

(***************************************************************************)
(* SpecLive: sweep.main() when every run of simulate returns.  The event   *)
(* loop runs every task that can run, every cell that holds a slot comes   *)
(* to its end, and a released slot is handed to the first waiter.          *)
(***************************************************************************)
NextLive ==
    \/ MainStart
    \/ \E c \in Cells : TaskStart(c)
    \/ \E c \in Cells : TaskWake(c)
    \/ \E c \in Cells : CellReturns(c)
    \/ GatherReturns
    \/ WriteRow
    \/ MainReturns

\* The cells of the largest grid.
AllCells == 1..GridSize(FullDims)

SpecLive ==
    /\ InitSweep
    /\ [][NextLive]_vars
    /\ WF_vars(MainStart)
    /\ \A c \in AllCells : WF_vars(c \in Cells /\ TaskStart(c))
    /\ \A c \in AllCells : WF_vars(c \in Cells /\ TaskWake(c))
    /\ \A c \in AllCells : WF_vars(c \in Cells /\ CellReturns(c))
    /\ WF_vars(GatherReturns)
    /\ WF_vars(WriteRow)
    /\ WF_vars(MainReturns)

\* Every cell has completed, gather has collected a row of every cell and
\* main has written them all and returned.
SweepDone ==
    /\ main_pc = "done"
    /\ Len(task) = GridSize(dims)
    /\ \A c \in Cells : task[c] = "done" /\ results[c] # NoRow
    /\ written = GridSize(dims)
    /\ Len(RowsOf(file.lines)) = GridSize(dims)

\* C22 (sweep liveness): when every run returns and the gate is fair, the
\* sweep reaches the state in which every cell has completed and all the
\* rows are collected and written, on grids of more cells than slots too;
\* until then some step can always be taken, so no task is stuck at the
\* gate; and a cell completes only after it was admitted.
C22_SweepLiveness ==
    /\ <>SweepDone
    /\ [](main_pc # "done" => ENABLED NextLive)
    /\ [][\A c \in Cells :
             (c \in DOMAIN task' /\ task'[c] = "done" /\ task[c] # "done") =>
                 task[c] = "running"]_vars

\* The sweep of a grid of more cells than slots is over: every row is
\* written and every slot is free again.
C22_Witness ==
    /\ SweepDone
    /\ GridSize(dims) > SemaphoreSlots
    /\ sem_value = SemaphoreSlots
    /\ sem_waiters = <<>>

====
